---- MODULE Spec2Model ----
(***************************************************************************)
(* A model of src/ai_salary_prediction.py, the salary regression script.   *)
(*                                                                         *)
(* The script is one straight line of statements over module-level         *)
(* globals (df, model, le, ...).  Each action below is one statement (or   *)
(* one group of adjacent statements) of the script, named after the line   *)
(* of its main call; pc is the line the run is about to execute.  An       *)
(* exception raised by a statement is not caught anywhere in the script,   *)
(* so it ends the run: pc becomes "raised" and err names the exception.    *)
(*                                                                         *)
(* Numbers.  pandas and scikit-learn compute in double precision.  The     *)
(* model computes the same least-squares solution in exact rational        *)
(* arithmetic ([num, den] in lowest terms); the inputs are small integers, *)
(* so the two agree up to the rounding of the last bits of a double.       *)
(* A missing value (pandas' NaN) is the cell NaN.                          *)
(***************************************************************************)
EXTENDS Integers, Sequences, FiniteSets

VARIABLES
    pc,                          \* the line about to run, "done" or "raised"
    err,                         \* the uncaught exception, or "none"
    df,                          \* the DataFrame: a sequence of rows
    rng42,                       \* what the shuffle seeded with 42 gives, per table length
    x_train, x_test,             \* line 40
    X_train, X_test,             \* lines 68, 102
    y_train, y_test,             \* lines 40, 68, 102
    model,                       \* lines 43, 71, 105
    y_pred,                      \* lines 49, 75, 109
    le,                          \* line 92
    job_title,                   \* lines 119, 130
    years_of_experience,         \* lines 83, 120, 131
    job_title_encoded,           \* lines 123, 134
    predicted_salary,            \* lines 84, 126, 137
    predicted_salary_in_rupees   \* line 140

vars == <<pc, err, df, rng42, x_train, x_test, X_train, X_test, y_train, y_test,
          model, y_pred, le, job_title, years_of_experience, job_title_encoded,
          predicted_salary, predicted_salary_in_rupees>>

(***************************************************************************)
(* Bounds of the model.                                                    *)
(***************************************************************************)
\* The longest input table (rows of Salary_Data.csv) the model reads.
MaxRows == 3

(***************************************************************************)
(* Cells, rows and tables.                                                 *)
(***************************************************************************)
NaN == [nan |-> TRUE]
Num(n) == [num |-> n]
Str(s) == [str |-> s]

isnull(c) == c = NaN

Range(s) == {s[i] : i \in 1..Len(s)}

\* Python's str order on the job titles of the model, smallest first
\* ('Data Analyst' < 'Data Scientist': they first differ at 'A' < 'S';
\* 'Data Scientist' < 'Software Engineer': 'D' < 'S').
TitlesInOrder == <<"Data Analyst", "Data Scientist", "Software Engineer">>

Titles == Range(TitlesInOrder)

TitleRank(t) == CHOOSE i \in 1..Len(TitlesInOrder) : TitlesInOrder[i] = t

Row(yrs, title, sal) == [Years |-> yrs, JobTitle |-> title, Salary |-> sal]

\* The rows an input table is drawn from: every complete row over two years
\* of experience, the two titles the script asks about and two salaries, one
\* row with a third title, and rows with one or all fields missing.
CompleteRows ==
    {Row(Num(yr), Str(t), Num(s)) :
        yr \in {1, 5}, t \in {"Data Analyst", "Data Scientist"},
        s \in {45000, 70000}}
    \cup {Row(Num(5), Str("Software Engineer"), Num(70000))}

IncompleteRows ==
    { Row(Num(5), NaN, Num(70000)),
      Row(NaN, Str("Data Analyst"), Num(45000)),
      Row(Num(1), Str("Data Analyst"), NaN),
      Row(NaN, NaN, NaN) }

InputRows == CompleteRows \cup IncompleteRows

InputTables == UNION {[1..n -> InputRows] : n \in 0..MaxRows}

RowHasNull(r) == isnull(r.Years) \/ isnull(r.JobTitle) \/ isnull(r.Salary)

RowAllNull(r) == isnull(r.Years) /\ isnull(r.JobTitle) /\ isnull(r.Salary)

\* A mutation of dropna: how='all', which drops a row only when every field
\* of it is missing.
dropna_how_all(t) == SelectSeq(t, LAMBDA r : ~RowAllNull(r))

\* df.dropna(): the rows without a missing field, in their order.
dropna(t) == SelectSeq(t, LAMBDA r : ~RowHasNull(r))

(***************************************************************************)
(* Exact rationals.                                                        *)
(***************************************************************************)
Abs(a) == IF a < 0 THEN -a ELSE a

RECURSIVE GCD(_, _)
GCD(a, b) == IF b = 0 THEN a ELSE GCD(b, a % b)

\* n/d in lowest terms with a positive denominator (d # 0)
Rat(n, d) ==
    LET g == GCD(Abs(n), Abs(d))
        s == IF d < 0 THEN -1 ELSE 1
    IN  [num |-> s * (n \div g), den |-> s * (d \div g)]

RatInt(n) == [num |-> n, den |-> 1]

RatAdd(a, b) == Rat(a.num * b.den + b.num * a.den, a.den * b.den)

RatSub(a, b) == Rat(a.num * b.den - b.num * a.den, a.den * b.den)

RatMulInt(a, k) == Rat(a.num * k, a.den)

RatDivInt(a, k) == Rat(a.num, a.den * k)

RatLess(a, b) == a.num * b.den < b.num * a.den

(***************************************************************************)
(* Feature matrices: a sequence of feature vectors, each a sequence of     *)
(* cells; a target column is a sequence of cells.                          *)
(***************************************************************************)
RECURSIVE SumSeq(_)
SumSeq(s) == IF s = <<>> THEN 0 ELSE s[1] + SumSeq(Tail(s))

Dot(a, b) == SumSeq([i \in 1..Len(a) |-> a[i] * b[i]])

\* n times the centred cross product of two columns of n numbers
Sn(a, b) == Len(a) * Dot(a, b) - SumSeq(a) * SumSeq(b)

Column(X, j) == [i \in 1..Len(X) |-> X[i][j].num]

Values(y) == [i \in 1..Len(y) |-> y[i].num]

HasNaN(X) == \E i \in 1..Len(X) : \E j \in 1..Len(X[i]) : isnull(X[i][j])

ColHasNaN(y) == \E i \in 1..Len(y) : isnull(y[i])

\* df[['Years of Experience']] and df[['Years of Experience', 'Job Title']]
Features1(t) == [i \in 1..Len(t) |-> <<t[i].Years>>]

Features2(t) == [i \in 1..Len(t) |-> <<t[i].Years, t[i].JobTitle>>]

\* df['Salary']
Target(t) == [i \in 1..Len(t) |-> t[i].Salary]

(***************************************************************************)
(* train_test_split(X, y, test_size=0.2, random_state=42).                 *)
(***************************************************************************)
\* test_size=0.2, in percent
test_size_percent == 20

\* n_test = ceil(test_size * n_samples).  For the table lengths of the model
\* the double product 0.2 * n rounds as the exact one does.
n_test(n) == (n * test_size_percent + 99) \div 100

\* n_train = n_samples - n_test
n_train(n) == n - n_test(n)

\* The rows of the test part among 1..n.  The shuffle is a permutation drawn
\* from a generator seeded with 42: a fixed function of n that the script
\* does not state, so the first split of a table of n rows may hold out any
\* n_test rows, and every later split of n rows holds out the same ones.
shuffle_test(memo, n) ==
    IF \E p \in memo : p[1] = n
    THEN {p[2] : p \in {q \in memo : q[1] = n}}
    ELSE {T \in SUBSET (1..n) : Cardinality(T) = n_test(n)}

\* The elements of s at the positions in I, from position i on.  (The order
\* inside a part is the shuffle's; fit, predict and the metrics do not
\* depend on it, and the model keeps the table's order.)
RECURSIVE Take(_, _, _)
Take(s, I, i) ==
    IF i > Len(s) THEN <<>>
    ELSE (IF i \in I THEN <<s[i]>> ELSE <<>>) \o Take(s, I, i + 1)

(***************************************************************************)
(* LinearRegression.                                                       *)
(***************************************************************************)
\* the name `model` before line 43 binds it
NoModel == [unbound |-> TRUE]

\* LinearRegression(), not yet fit
LinearRegression == [fitted |-> FALSE, n_features_in_ |-> 0, coef_ |-> <<>>,
                     intercept_ |-> RatInt(0)]

\* The least-squares weights of the centred problem, as scipy's lstsq gives
\* them: the solution of the normal equations, and the one of least norm
\* when the centred features are rank deficient.
lstsq(X, y) ==
    LET yv == Values(y)
        x1 == Column(X, 1)
        S11 == Sn(x1, x1)
        S1y == Sn(x1, yv)
    IN  IF Len(X[1]) = 1
        THEN <<IF S11 = 0 THEN RatInt(0) ELSE Rat(S1y, S11)>>
        ELSE LET x2 == Column(X, 2)
                 S22 == Sn(x2, x2)
                 S12 == Sn(x1, x2)
                 S2y == Sn(x2, yv)
                 det == S11 * S22 - S12 * S12
             IN  IF det # 0
                 THEN <<Rat(S22 * S1y - S12 * S2y, det),
                        Rat(S11 * S2y - S12 * S1y, det)>>
                 ELSE IF S11 + S22 = 0
                 THEN <<RatInt(0), RatInt(0)>>
                 ELSE <<Rat(S1y, S11 + S22), Rat(S2y, S11 + S22)>>

RECURSIVE RatSum(_)
RatSum(s) == IF s = <<>> THEN RatInt(0) ELSE RatAdd(s[1], RatSum(Tail(s)))

\* A mutation of fit: least squares through the origin (fit_intercept=False
\* for one feature).
fit_no_intercept(X, y) ==
    LET x1 == Column(X, 1)
    IN  [fitted |-> TRUE, n_features_in_ |-> Len(X[1]),
         coef_ |-> <<Rat(Dot(x1, Values(y)), Dot(x1, x1))>>,
         intercept_ |-> RatInt(0)]

\* model.fit(X, y) on data without NaN: the weights, and the intercept
\* mean(y) - sum_j coef_[j] * mean(X[:, j]).
fit(X, y) ==
    LET w == lstsq(X, y)
        n == Len(X)
        wx == [j \in 1..Len(w) |-> RatMulInt(w[j], SumSeq(Column(X, j)))]
    IN  [fitted |-> TRUE, n_features_in_ |-> Len(X[1]), coef_ |-> w,
         intercept_ |->
             RatDivInt(RatSub(RatInt(SumSeq(Values(y))), RatSum(wx)), n)]

\* the exception fit raises on (X, y), or "none"
fit_error(X, y) == IF HasNaN(X) \/ ColHasNaN(y) THEN "ValueError" ELSE "none"

\* the exception m.predict(X) raises, or "none"
predict_error(m, X) ==
    IF ~m.fitted THEN "NotFittedError"
    ELSE IF \E i \in 1..Len(X) : Len(X[i]) # m.n_features_in_ THEN "ValueError"
    ELSE IF HasNaN(X) THEN "ValueError"
    ELSE "none"

\* m.predict(X): intercept_ + X . coef_, one number per feature vector
predict(m, X) ==
    [i \in 1..Len(X) |->
        RatAdd(m.intercept_,
               RatSum([j \in 1..Len(X[i]) |-> RatMulInt(m.coef_[j], X[i][j].num)]))]

\* the exception mean_squared_error / r2_score raise on y_test, or "none"
metrics_error(yt) == IF ColHasNaN(yt) THEN "ValueError" ELSE "none"

(***************************************************************************)
(* LabelEncoder.                                                           *)
(***************************************************************************)
\* the name `le` before line 92 binds it
NoEncoder == [unbound |-> TRUE]

StrLess(a, b) == TitleRank(a) < TitleRank(b)

RECURSIVE SortSet(_)
SortSet(S) ==
    IF S = {} THEN <<>>
    ELSE LET m == CHOOSE a \in S : \A b \in S : ~StrLess(b, a)
         IN  <<m>> \o SortSet(S \ {m})

\* A mutation of np.unique: the distinct values in order of first appearance.
RECURSIVE unique_unsorted(_)
unique_unsorted(s) ==
    IF s = <<>> THEN <<>>
    ELSE LET r == unique_unsorted(SubSeq(s, 1, Len(s) - 1))
             v == s[Len(s)]
         IN  IF v \in Range(r) THEN r ELSE Append(r, v)

\* np.unique(values): the distinct values, sorted
unique(s) == SortSet(Range(s))

\* A mutation of transform: the position counted from 1.
transform_one_based(classes, v) ==
    Cardinality({i \in 1..Len(classes) : StrLess(classes[i], v)}) + 1

\* le.transform([v])[0]: np.searchsorted(classes_, v), the number of classes
\* that sort before v, which is the position of v, counted from 0, in the
\* sorted classes_
transform(classes, v) ==
    Cardinality({i \in 1..Len(classes) : StrLess(classes[i], v)})

\* A mutation of transform's check: no check for unseen labels.
transform_unchecked(classes, v) == "none"

\* the exception le.transform([v]) raises, or "none"
transform_error(classes, v) ==
    IF v \in Range(classes) THEN "none" ELSE "ValueError"

\* le.inverse_transform([c])[0] for a code c of a class
inverse_transform(classes, c) == classes[c + 1]

\* le.fit(col).classes_ for a column of strings
fit_classes(col) == unique([i \in 1..Len(col) |-> col[i].str])

(***************************************************************************)
(* The script.                                                             *)
(***************************************************************************)
\* line 140 divides by 30
per_day_divisor == 30

Raise(e) == pc' = "raised" /\ err' = e

Goto(l) == pc' = l /\ err' = err

Init ==
    /\ pc = "L36"
    /\ err = "none"
    /\ df \in InputTables
    /\ rng42 = {}
    /\ x_train = <<>> /\ x_test = <<>>
    /\ X_train = <<>> /\ X_test = <<>>
    /\ y_train = <<>> /\ y_test = <<>>
    /\ model = NoModel
    /\ y_pred = <<>>
    /\ le = NoEncoder
    /\ job_title = "" /\ years_of_experience = 0 /\ job_title_encoded = -1
    /\ predicted_salary = <<>>
    /\ predicted_salary_in_rupees = <<>>

\* lines 36-40: x, y = the feature and the target column of df;
\* x_train, x_test, y_train, y_test = train_test_split(x, y, ...)
Split40 ==
    /\ pc = "L36"
    /\ LET n == Len(df)
       IN  IF n_train(n) = 0
           THEN /\ Raise("ValueError")
                /\ UNCHANGED <<rng42, x_train, x_test, y_train, y_test>>
           ELSE \E T \in shuffle_test(rng42, n) :
                /\ rng42' = rng42 \cup {<<n, T>>}
                /\ x_train' = Take(Features1(df), (1..n) \ T, 1)
                /\ x_test' = Take(Features1(df), T, 1)
                /\ y_train' = Take(Target(df), (1..n) \ T, 1)
                /\ y_test' = Take(Target(df), T, 1)
                /\ Goto("L43")
    /\ UNCHANGED <<df, X_train, X_test, model, y_pred, le, job_title,
                   years_of_experience, job_title_encoded, predicted_salary,
                   predicted_salary_in_rupees>>

\* lines 63-68 and 98-102: X, y = columns of df; X_train, X_test, y_train,
\* y_test = train_test_split(X, y, ...)
SplitX(from, to, X) ==
    /\ pc = from
    /\ LET n == Len(X)
       IN  IF n_train(n) = 0
           THEN /\ Raise("ValueError")
                /\ UNCHANGED <<rng42, X_train, X_test, y_train, y_test>>
           ELSE \E T \in shuffle_test(rng42, n) :
                /\ rng42' = rng42 \cup {<<n, T>>}
                /\ X_train' = Take(X, (1..n) \ T, 1)
                /\ X_test' = Take(X, T, 1)
                /\ y_train' = Take(Target(df), (1..n) \ T, 1)
                /\ y_test' = Take(Target(df), T, 1)
                /\ Goto(to)
    /\ UNCHANGED <<df, x_train, x_test, model, y_pred, le, job_title,
                   years_of_experience, job_title_encoded, predicted_salary,
                   predicted_salary_in_rupees>>

Split68 == SplitX("L63", "L71", Features1(df))

\* A mutation of lines 98-102: 'Job Title' is not added to the features.
Split102_without_title == SplitX("L98", "L105", Features1(df))

Split102 == SplitX("L98", "L105", Features2(df))

\* lines 43, 71, 105: model = LinearRegression()
NewModel(from, to) ==
    /\ pc = from
    /\ model' = LinearRegression
    /\ Goto(to)
    /\ UNCHANGED <<df, rng42, x_train, x_test, X_train, X_test, y_train, y_test,
                   y_pred, le, job_title, years_of_experience, job_title_encoded,
                   predicted_salary, predicted_salary_in_rupees>>

New43 == NewModel("L43", "L46")

New71 == NewModel("L71", "L72")

New105 == NewModel("L105", "L106")

\* lines 46, 72, 106: model.fit(X, y_train)
FitModel(from, to, X) ==
    /\ pc = from
    /\ IF fit_error(X, y_train) # "none"
       THEN Raise(fit_error(X, y_train)) /\ model' = model
       ELSE model' = fit(X, y_train) /\ Goto(to)
    /\ UNCHANGED <<df, rng42, x_train, x_test, X_train, X_test, y_train, y_test,
                   y_pred, le, job_title, years_of_experience, job_title_encoded,
                   predicted_salary, predicted_salary_in_rupees>>

Fit46 == FitModel("L46", "L49", x_train)

Fit72 == FitModel("L72", "L75", X_train)

Fit106 == FitModel("L106", "L109", X_train)

\* lines 49, 75, 109: y_pred = model.predict(X)
PredictTest(from, to, X) ==
    /\ pc = from
    /\ IF predict_error(model, X) # "none"
       THEN Raise(predict_error(model, X)) /\ y_pred' = y_pred
       ELSE y_pred' = predict(model, X) /\ Goto(to)
    /\ UNCHANGED <<df, rng42, x_train, x_test, X_train, X_test, y_train, y_test,
                   model, le, job_title, years_of_experience, job_title_encoded,
                   predicted_salary, predicted_salary_in_rupees>>

Predict49 == PredictTest("L49", "L52", x_test)

Predict75 == PredictTest("L75", "L79", X_test)

Predict109 == PredictTest("L109", "L112", X_test)

\* lines 52-56, 79-80, 112-116: mean_squared_error and r2_score of
\* (y_test, y_pred), printed.  The two metrics are reals that nothing later
\* in the script reads; the step is modelled by whether it raises.
Evaluate(from, to) ==
    /\ pc = from
    /\ IF metrics_error(y_test) # "none"
       THEN Raise(metrics_error(y_test))
       ELSE Goto(to)
    /\ UNCHANGED <<df, rng42, x_train, x_test, X_train, X_test, y_train, y_test,
                   model, y_pred, le, job_title, years_of_experience,
                   job_title_encoded, predicted_salary,
                   predicted_salary_in_rupees>>

Evaluate52 == Evaluate("L52", "L60")

Evaluate79 == Evaluate("L79", "L83")

Evaluate112 == Evaluate("L112", "L119")

\* lines 58-60: df.isnull().sum() (displayed only); df = df.dropna()
Dropna60 ==
    /\ pc = "L60"
    /\ df' = dropna(df)
    /\ Goto("L63")
    /\ UNCHANGED <<rng42, x_train, x_test, X_train, X_test, y_train, y_test,
                   model, y_pred, le, job_title, years_of_experience,
                   job_title_encoded, predicted_salary,
                   predicted_salary_in_rupees>>

\* lines 83-87: years_of_experience = 5;
\* predicted_salary = model.predict([[years_of_experience]])
Predict84 ==
    /\ pc = "L83"
    /\ years_of_experience' = 5
    /\ LET X == << <<Num(5)>> >>
       IN  IF predict_error(model, X) # "none"
           THEN Raise(predict_error(model, X))
                /\ predicted_salary' = predicted_salary
           ELSE predicted_salary' = predict(model, X) /\ Goto("L92")
    /\ UNCHANGED <<df, rng42, x_train, x_test, X_train, X_test, y_train, y_test,
                   model, y_pred, le, job_title, job_title_encoded,
                   predicted_salary_in_rupees>>

\* the 'Job Title' column of a table
JobTitles(t) == [i \in 1..Len(t) |-> t[i].JobTitle]

\* A mutation of fit_transform: the codes of the column read backwards.
fit_transform_misaligned(col) ==
    LET classes == fit_classes(col)
    IN  [classes_ |-> classes,
         codes |-> [i \in 1..Len(col) |->
                       transform(classes, col[Len(col) + 1 - i].str)]]

\* le.fit_transform(col): the fitted classes and the code of every cell
fit_transform(col) ==
    LET classes == fit_classes(col)
    IN  [classes_ |-> classes,
         codes |-> [i \in 1..Len(col) |-> transform(classes, col[i].str)]]

\* lines 92-95: le = LabelEncoder();
\* df['Job Title'] = le.fit_transform(df['Job Title'])
FitTransform95 ==
    /\ pc = "L92"
    /\ LET r == fit_transform(JobTitles(df))
       IN  /\ le' = [classes_ |-> r.classes_]
           /\ df' = [i \in 1..Len(df) |->
                        [df[i] EXCEPT !.JobTitle = Num(r.codes[i])]]
    /\ Goto("L98")
    /\ UNCHANGED <<rng42, x_train, x_test, X_train, X_test, y_train, y_test,
                   model, y_pred, job_title, years_of_experience,
                   job_title_encoded, predicted_salary,
                   predicted_salary_in_rupees>>

\* lines 119-120, 130-131: job_title = ...; years_of_experience = 5
AssignInput(from, to, title) ==
    /\ pc = from
    /\ job_title' = title
    /\ years_of_experience' = 5
    /\ Goto(to)
    /\ UNCHANGED <<df, rng42, x_train, x_test, X_train, X_test, y_train, y_test,
                   model, y_pred, le, job_title_encoded, predicted_salary,
                   predicted_salary_in_rupees>>

Assign119 == AssignInput("L119", "L123", "Data Scientist")

Assign130 == AssignInput("L130", "L134", "Data Analyst")

\* A mutation of lines 123, 134: the encoder is fit again on the title to
\* encode, job_title_encoded = le.fit_transform([job_title])[0].
Transform_refit(from, to) ==
    /\ pc = from
    /\ le' = [classes_ |-> fit_classes(<<Str(job_title)>>)]
    /\ job_title_encoded' = transform(le'.classes_, job_title)
    /\ Goto(to)
    /\ UNCHANGED <<df, rng42, x_train, x_test, X_train, X_test, y_train, y_test,
                   model, y_pred, job_title, years_of_experience,
                   predicted_salary, predicted_salary_in_rupees>>

\* lines 123, 134: job_title_encoded = le.transform([job_title])[0]
Transform(from, to) ==
    /\ pc = from
    /\ IF transform_error(le.classes_, job_title) # "none"
       THEN Raise(transform_error(le.classes_, job_title))
            /\ job_title_encoded' = job_title_encoded
       ELSE job_title_encoded' = transform(le.classes_, job_title) /\ Goto(to)
    /\ UNCHANGED <<df, rng42, x_train, x_test, X_train, X_test, y_train, y_test,
                   model, y_pred, le, job_title, years_of_experience,
                   predicted_salary, predicted_salary_in_rupees>>

Transform123 == Transform("L123", "L126")

Transform134 == Transform("L134", "L137")

\* lines 126, 137:
\* predicted_salary = model.predict([[years_of_experience, job_title_encoded]])
PredictOne(from, to) ==
    /\ pc = from
    /\ LET X == << <<Num(years_of_experience), Num(job_title_encoded)>> >>
       IN  IF predict_error(model, X) # "none"
           THEN Raise(predict_error(model, X))
                /\ predicted_salary' = predicted_salary
           ELSE predicted_salary' = predict(model, X) /\ Goto(to)
    /\ UNCHANGED <<df, rng42, x_train, x_test, X_train, X_test, y_train, y_test,
                   model, y_pred, le, job_title, years_of_experience,
                   job_title_encoded, predicted_salary_in_rupees>>

Predict126 == PredictOne("L126", "L130")

Predict137 == PredictOne("L137", "L140")

\* lines 140-143: predicted_salary_in_rupees = predicted_salary[0] / 30
Divide140 ==
    /\ pc = "L140"
    /\ predicted_salary_in_rupees' =
           <<RatDivInt(predicted_salary[1], per_day_divisor)>>
    /\ Goto("done")
    /\ UNCHANGED <<df, rng42, x_train, x_test, X_train, X_test, y_train, y_test,
                   model, y_pred, le, job_title, years_of_experience,
                   job_title_encoded, predicted_salary>>

Next ==
    \/ Split40 \/ New43 \/ Fit46 \/ Predict49 \/ Evaluate52
    \/ Dropna60
    \/ Split68 \/ New71 \/ Fit72 \/ Predict75 \/ Evaluate79
    \/ Predict84
    \/ FitTransform95
    \/ Split102 \/ New105 \/ Fit106 \/ Predict109 \/ Evaluate112
    \/ Assign119 \/ Transform123 \/ Predict126
    \/ Assign130 \/ Transform134 \/ Predict137
    \/ Divide140

Spec == Init /\ [][Next]_vars

(***************************************************************************)
(* The one-feature fit of lines 71-87 on its own: the run from line 71 on, *)
(* for a cleaned table whose training part is drawn from the five rows of  *)
(* the worked example and whose held-out part is drawn from two more rows. *)
(* Each initial state is the state at line 71 of a run on that table (the  *)
(* table has no missing value, so lines 36-68 leave df as read and split   *)
(* it the same way twice).                                                 *)
(***************************************************************************)
ExampleRows ==
    << Row(Num(1), Str("Data Analyst"), Num(45000)),
       Row(Num(2), Str("Data Analyst"), Num(50000)),
       Row(Num(3), Str("Data Analyst"), Num(60000)),
       Row(Num(4), Str("Data Analyst"), Num(65000)),
       Row(Num(5), Str("Data Analyst"), Num(70000)) >>

HeldOutRows ==
    { Row(Num(2), Str("Data Scientist"), Num(55000)),
      Row(Num(6), Str("Data Scientist"), Num(75000)) }

InitFit ==
    \E I \in SUBSET (1..Len(ExampleRows)) : \E k \in 1..2 :
    \E held \in [1..k -> HeldOutRows] :
        LET train == Take(ExampleRows, I, 1)
            n == Len(train) + k
            T == (Len(train) + 1)..n
        IN  /\ I # {}
            /\ n_test(n) = k
            /\ pc = "L71"
            /\ err = "none"
            /\ df = train \o held
            /\ rng42 = {<<n, T>>}
            /\ x_train = Features1(train) /\ x_test = Features1(held)
            /\ X_train = Features1(train) /\ X_test = Features1(held)
            /\ y_train = Target(train) /\ y_test = Target(held)
            /\ model = fit(Features1(train), Target(train))
            /\ y_pred = predict(model, Features1(held))
            /\ le = NoEncoder
            /\ job_title = "" /\ years_of_experience = 0
            /\ job_title_encoded = -1
            /\ predicted_salary = <<>>
            /\ predicted_salary_in_rupees = <<>>

NextFit == New71 \/ Fit72 \/ Predict75 \/ Evaluate79 \/ Predict84

SpecFit == InitFit /\ [][NextFit]_vars

(***************************************************************************)
(* Properties.                                                             *)
(***************************************************************************)
FitLines == {"L46", "L72", "L106"}

\* the lines after df = df.dropna()
AfterClean ==
    {"L63", "L71", "L72", "L75", "L79", "L83", "L92", "L98", "L105", "L106",
     "L109", "L112", "L119", "L123", "L126", "L130", "L134", "L137", "L140",
     "done", "raised"}

HasEncoder == le # NoEncoder

\* s is a subsequence of t: the elements of s are elements of t at
\* increasing positions
IsSubsequence(s, t) ==
    \E f \in [1..Len(s) -> 1..Len(t)] :
        /\ \A i \in 1..Len(s) : s[i] = t[f[i]]
        /\ \A i, j \in 1..Len(s) : i < j => f[i] < f[j]

\* C1: whenever a model is about to be fit, the table its training subset
\* was split from holds no row with a missing field (the rows with missing
\* values have been removed before any split that feeds a fit).  The first
\* fit, at line 46, breaks it: it comes before line 60.
C1_FitOnlyOnCleanedTable ==
    pc \in FitLines => \A i \in 1..Len(df) : ~RowHasNull(df[i])

\* C2: for a table with at least one complete row, df.dropna() leaves no row
\* with a missing field, and what it leaves is a subsequence of the table:
\* no row added, altered or reordered.
C2_DropnaCleanSubsequence ==
    [][(pc = "L60" /\ \E i \in 1..Len(df) : ~RowHasNull(df[i]))
         => /\ \A i \in 1..Len(df') : ~RowHasNull(df'[i])
            /\ IsSubsequence(df', df)]_vars

\* dropna has run, has removed at least one row and has kept at least one
C2_Witness ==
    /\ pc = "L63"
    /\ Len(df) >= 1
    /\ Len(df) < Len(x_train) + Len(x_test)

\* C3: encoding a job title the encoder was not fit on raises, and the run
\* ends there with no code assigned and no prediction made; a prediction for
\* a title is only ever reached with the title among the encoder's classes
\* and the code that decodes to it.
C3_UnseenTitleRaises ==
    [][/\ (pc \in {"L123", "L134"} /\ job_title \notin Range(le.classes_))
            => /\ pc' = "raised" /\ err' = "ValueError"
               /\ job_title_encoded' = job_title_encoded
               /\ predicted_salary' = predicted_salary
       /\ pc' \in {"L126", "L137"}
            => /\ job_title' \in Range(le'.classes_)
               /\ job_title_encoded' + 1 \in 1..Len(le'.classes_)
               /\ inverse_transform(le'.classes_, job_title_encoded') = job_title'
      ]_vars

\* the run ended in the encoding of a title that is not among the classes
C3_Witness ==
    /\ pc = "raised" /\ err = "ValueError"
    /\ HasEncoder
    /\ job_title \in Titles
    /\ job_title \notin Range(le.classes_)

\* C4: once fit, the encoder never changes: no later step, a failed encode
\* included, refits or alters it.
C4_EncoderStable ==
    [][HasEncoder => le' = le]_vars

\* 'Data Scientist' was encoded, then the encode of 'Data Analyst' failed,
\* and the encoder still gives 'Data Scientist' the code it gave
C4_Witness ==
    /\ pc = "raised"
    /\ HasEncoder
    /\ job_title = "Data Analyst"
    /\ job_title \notin Range(le.classes_)
    /\ job_title_encoded = transform(le.classes_, "Data Scientist")

\* C5: for every title v of the column the encoder is fit on, v is a class,
\* its code is a valid code, decoding the code gives v back, and the code
\* stored in the column for a row decodes to the row's title.
C5_RoundTrip ==
    [][pc = "L92" =>
        \A i \in 1..Len(df) :
            LET v == df[i].JobTitle.str
                classes == le'.classes_
                c == transform(classes, v)
            IN  /\ v \in Range(classes)
                /\ c + 1 \in 1..Len(classes)
                /\ inverse_transform(classes, c) = v
                /\ df'[i].JobTitle = Num(c)
      ]_vars

\* the encoder was fit on a column with two distinct titles
C5_Witness ==
    /\ pc = "L98"
    /\ Len(le.classes_) = 2
    /\ \E i, j \in 1..Len(df) : df[i].JobTitle # df[j].JobTitle

\* the distinct values of s in order of first appearance
RECURSIVE FirstAppearance(_)
FirstAppearance(s) ==
    IF s = <<>> THEN <<>>
    ELSE LET r == FirstAppearance(SubSeq(s, 1, Len(s) - 1))
             v == s[Len(s)]
         IN  IF v \in Range(r) THEN r ELSE Append(r, v)

PositionIn(s, v) == CHOOSE i \in 1..Len(s) : s[i] = v

\* C6, as stated: fitting assigns the codes in order of first appearance:
\* the first distinct title of the column gets 0, the next new one 1, ...
C6_FirstAppearanceOrder ==
    [][pc = "L92" =>
        LET col == [i \in 1..Len(df) |-> df[i].JobTitle.str]
        IN  \A i \in 1..Len(df) :
                df'[i].JobTitle =
                    Num(PositionIn(FirstAppearance(col), col[i]) - 1)
      ]_vars

\* C6, amended: fitting assigns each distinct title a unique code, the codes
\* are 0..k-1 for k distinct titles, and they follow the sorted order of the
\* titles (classes_ is sorted and a title's code is its position in it).
C6_SortedOrder ==
    [][pc = "L92" =>
        LET code == [i \in 1..Len(df) |-> df'[i].JobTitle.num]
            title == [i \in 1..Len(df) |-> df[i].JobTitle.str]
        IN  /\ \A i, j \in 1..Len(df) :
                 /\ (code[i] = code[j]) <=> (title[i] = title[j])
                 /\ (code[i] < code[j]) <=> StrLess(title[i], title[j])
            /\ Range(code) = 0..(Cardinality(Range(title)) - 1)
            /\ \A i \in 1..Len(df) : le'.classes_[code[i] + 1] = title[i]
      ]_vars

\* the encoder was fit on a column that starts with 'Data Scientist' and
\* also holds 'Data Analyst': the first title to appear has code 1
C6_Witness ==
    /\ pc = "L98"
    /\ Len(df) >= 2
    /\ df[1].JobTitle = Num(1)
    /\ \E i \in 1..Len(df) : df[i].JobTitle = Num(0)

\* the model has been fit on exactly the five rows of the example, and the
\* prediction for 5 years has been made
ExampleFitted ==
    /\ pc = "L92"
    /\ X_train = Features1(ExampleRows)
    /\ y_train = Target(ExampleRows)
    /\ years_of_experience = 5

\* |p - a| < |p - b| for a rational p and integers a, b
Closer(p, a, b) ==
    Abs(p.num - a * p.den) < Abs(p.num - b * p.den)

\* C7, as stated: the prediction for 5 years of the model fit on the five
\* rows is strictly between 45000 and 70000 and closer to 70000.
C7_PredictionInsideRange ==
    ExampleFitted =>
        /\ RatLess(RatInt(45000), predicted_salary[1])
        /\ RatLess(predicted_salary[1], RatInt(70000))
        /\ Closer(predicted_salary[1], 70000, 45000)

\* C7, amended: the prediction is 71000 (slope 6500, intercept 38500):
\* strictly greater than 45000 and closer to 70000 than to 45000, but
\* above 70000, the largest training target, not below it.
C7_PredictionAboveRange ==
    ExampleFitted =>
        /\ predicted_salary[1] = RatInt(71000)
        /\ RatLess(RatInt(45000), predicted_salary[1])
        /\ RatLess(RatInt(70000), predicted_salary[1])
        /\ Closer(predicted_salary[1], 70000, 45000)

C7_Witness == ExampleFitted /\ predicted_salary # <<>>

\* C8: at every predict call the feature vectors are as long as the number
\* of features the model bound to `model` was last fit on: [years] goes to
\* the model fit on the 'Years of Experience' column of the training rows,
\* [years, code] to the model fit on the two columns, in that order.
C8_PredictWidthMatches ==
    /\ pc = "L49" =>
          /\ model.fitted
          /\ \A i \in 1..Len(x_test) : Len(x_test[i]) = model.n_features_in_
    /\ pc \in {"L75", "L109"} =>
          /\ model.fitted
          /\ \A i \in 1..Len(X_test) : Len(X_test[i]) = model.n_features_in_
    /\ pc = "L83" =>
          /\ model.fitted
          /\ model.n_features_in_ = 1
          /\ Range(X_train) \subseteq Range(Features1(df))
          /\ model.coef_ = lstsq(X_train, y_train)
    /\ pc \in {"L126", "L137"} =>
          /\ model.fitted
          /\ model.n_features_in_ = 2
          /\ Range(X_train) \subseteq Range(Features2(df))
          /\ model.coef_ = lstsq(X_train, y_train)

\* both kinds of single prediction have been made
C8_Witness ==
    /\ pc = "L140"
    /\ model.n_features_in_ = 2
    /\ Len(predicted_salary) = 1

\* C9, as stated: after the cleaning step no step changes the table.
C9_TableReadOnly ==
    [][(pc \in AfterClean) => df' = df]_vars

\* C9, amended: after the cleaning step no step adds, removes or reorders
\* rows or changes a 'Years of Experience' or 'Salary' field; the only
\* change is line 95, which overwrites every 'Job Title' with its code, so
\* the strings leave the table and are left only in the encoder's classes_.
C9_OnlyJobTitleEncoded ==
    [][(pc \in AfterClean) =>
        /\ Len(df') = Len(df)
        /\ \A i \in 1..Len(df) :
            /\ df'[i].Years = df[i].Years
            /\ df'[i].Salary = df[i].Salary
            /\ IF pc = "L92"
               THEN /\ df'[i].JobTitle \in {Num(c) : c \in 0..(Len(le'.classes_) - 1)}
                    /\ le'.classes_[df'[i].JobTitle.num + 1] = df[i].JobTitle.str
               ELSE df'[i].JobTitle = df[i].JobTitle
      ]_vars

\* the titles of a table with two distinct titles have been replaced
C9_Witness ==
    /\ pc = "L98"
    /\ \E i \in 1..Len(df) : df[i].JobTitle = Num(0)
    /\ \E i \in 1..Len(df) : df[i].JobTitle = Num(1)
    /\ \A i \in 1..Len(df) : df[i].JobTitle \notin {Str(t) : t \in Titles}

\* C10: the per-day figure of the last prediction is the predicted salary
\* divided by 90, as the comment of line 139 says.  Line 140 divides by 30.
C10_PerDayIsPredictionOver90 ==
    pc = "done" =>
        predicted_salary_in_rupees = <<RatDivInt(predicted_salary[1], 90)>>

====
